---- MODULE Spec2Model ----
(***************************************************************************)
(* Model of the retrieval substrate of the RAG system:                     *)
(*   DocumentProcessor._chunk_content  (document_processor.py)             *)
(*   VectorStore.add_documents / delete_document / query /                 *)
(*   get_chunks_by_ids / get_all_documents  (vector_store.py)              *)
(*   Retriever.retrieve  (retriever.py)                                    *)
(*   the "Process Uploads" loop and the delete button  (app.py)            *)
(*                                                                         *)
(* Tokens are not modelled individually: the files that are ingested are   *)
(* one document per token count N, and a chunk text is the token span      *)
(* [lo, hi) of the document it was cut from.                               *)
(* hashlib.md5 is taken to be collision free, so an id is modelled by the  *)
(* string that is hashed, f"{filename}_{chunk_index}".                     *)
(***************************************************************************)
EXTENDS Integers, Sequences, FiniteSets, TLC

VARIABLES
    chunk_size,      \* DocumentProcessor.chunk_size
    chunk_overlap,   \* DocumentProcessor.chunk_overlap
    pc,              \* position of the running handler, or how it ended
    flow,            \* which caller runs the chunker: "chunker", "upload", "direct"
    filename,        \* argument of _chunk_content (file_path.name)
    uploaded_name,   \* uploaded_file.name of the upload being processed
    total_tokens,    \* len(tokens)
    start,           \* loop variable of _chunk_content
    chunk_index,     \* loop variable of _chunk_content
    chunks,          \* list built by _chunk_content, later passed to add_documents
    clock,           \* datetime.now(), counted in process_file calls
    pos,             \* 1-based position of add_documents in chunks
    txn,             \* rows as seen by the open transaction of add_documents
    replaced,        \* the running/last add_documents hit ON CONFLICT DO UPDATE
    store,           \* committed rows of table documents
    lastArg,         \* filename argument of delete_document
    rowcount,        \* rows the DELETE of delete_document affected
    adjacency_window,\* argument of the last retrieve
    result           \* expanded_results of the last retrieve

vars == <<chunk_size, chunk_overlap, pc, flow, filename, uploaded_name,
          total_tokens, start, chunk_index, chunks, clock, pos, txn, replaced,
          store, lastArg, rowcount, adjacency_window,
          result>>

chunkerVars == <<filename, total_tokens, start, chunk_index, chunks>>
storeVars == <<pos, txn, replaced, store>>
retrVars == <<adjacency_window, result>>

----------------------------------------------------------------------------
(* Bounds *)

MaxTokens == 7          \* token counts N in the chunker specification
MaxChunkSize == 5       \* window sizes W in the chunker specification
MaxOverlap == 5         \* overlaps O in the chunker specification
MaxIter == MaxTokens + 2 \* cap on loop iterations (only reached when O >= W)
AppMaxTokens == 3       \* token counts of ingested files
AppMaxChunkSize == 2    \* window sizes of the application's processor
MaxIngest == 2          \* process_file calls per behaviour
MaxQueriedIngest == 1   \* retrieve is explored after at most this many of them
MaxTopK == 2            \* top_k of retrieve
MaxWindow == 2          \* adjacency_window of retrieve

SourceNames == {"a.txt", "b.txt"}     \* names of files on disk / uploads
TmpPrefixes == {"tmp1", "tmp2"}       \* random part of NamedTemporaryFile names

----------------------------------------------------------------------------
(* Pure helpers *)

Min(a, b) == IF a < b THEN a ELSE b
Max(a, b) == IF a > b THEN a ELSE b

\* hashlib.md5(f"{filename}_{index}".encode()).hexdigest()
ChunkId(fname, index) == fname \o "_" \o ToString(index)

\* tempfile.NamedTemporaryFile(suffix=f"_{name}") -> Path(tmp.name).name
TmpName(prefix, name) == prefix \o "_" \o name

\* Python's tokens[s:e] on a list of length n, as the span <<lo, hi>> it selects
PySlice(n, s, e) ==
    LET lo == IF s < 0 THEN Max(s + n, 0) ELSE Min(s, n)
        hi == IF e < 0 THEN Max(e + n, 0) ELSE Min(e, n)
    IN  IF hi <= lo THEN <<0, 0>> ELSE <<lo, hi>>

\* end = min(start + self.chunk_size, total_tokens)
WindowEndUnclamped(s) == s + chunk_size
WindowEnd(s) == Min(s + chunk_size, total_tokens)

\* start += (self.chunk_size - self.chunk_overlap)
NextStartNoOverlap(s) == s + chunk_size
NextStartSwapped(s) == s + (chunk_overlap - chunk_size)
NextStart(s) == s + (chunk_size - chunk_overlap)

\* the dict appended to chunks in one loop iteration
MakeChunk(fname, index, s, e) ==
    LET span == PySlice(total_tokens, s, e)
    IN  [id |-> ChunkId(fname, index),
         text |-> [doc |-> total_tokens, lo |-> span[1], hi |-> span[2]],
         metadata |-> [source |-> fname,
                       chunk_index |-> index,
                       processed_date |-> clock,
                       token_count |-> span[2] - span[1]]]

----------------------------------------------------------------------------
(* DocumentProcessor._chunk_content *)

\* entry of _chunk_content: tokens = enc.encode(content); start = 0; chunk_index = 0
EnterChunker(fname, n) ==
    /\ clock < MaxIngest
    /\ filename' = fname
    /\ total_tokens' = n
    /\ start' = 0
    /\ chunk_index' = 0
    /\ chunks' = <<>>
    /\ clock' = clock + 1
    /\ pc' = "chunk"

\* a direct call of _chunk_content(content, filename)
ChunkCall ==
    /\ pc = "idle"
    /\ flow = "none"
    /\ \E fname \in SourceNames, n \in 0..MaxTokens :
          EnterChunker(fname, n)
    /\ flow' = "chunker"
    /\ UNCHANGED <<chunk_size, chunk_overlap, uploaded_name, storeVars,
                   lastArg, rowcount, retrVars>>

\* one iteration of "while start < total_tokens"
ChunkLoopBody ==
    /\ pc = "chunk"
    /\ start < total_tokens
    /\ chunk_index < MaxIter
    /\ LET end == WindowEnd(start)
       IN  /\ chunks' = Append(chunks, MakeChunk(filename, chunk_index, start, end))
           /\ IF end = total_tokens
              THEN /\ pc' = "chunked"
                   /\ UNCHANGED <<start, chunk_index>>
              ELSE /\ start' = NextStart(start)
                   /\ chunk_index' = chunk_index + 1
                   /\ pc' = "chunk"
    /\ UNCHANGED <<chunk_size, chunk_overlap, flow, filename, uploaded_name,
                   total_tokens, clock, storeVars, lastArg, rowcount,
                   retrVars>>

\* the loop condition fails: return chunks
ChunkLoopExit ==
    /\ pc = "chunk"
    /\ ~(start < total_tokens)
    /\ pc' = "chunked"
    /\ UNCHANGED <<chunk_size, chunk_overlap, flow, chunkerVars, uploaded_name,
                   clock, storeVars, lastArg, rowcount, retrVars>>

\* a handler is over: its locals and its return value are gone
Return ==
    /\ \/ pc \in {"skipped", "add_failed", "added", "deleted", "retrieved"}
       \/ pc = "chunked" /\ flow = "chunker"
    /\ pc' = "idle"
    /\ flow' = "none"
    /\ filename' = ""
    /\ uploaded_name' = ""
    /\ total_tokens' = 0
    /\ start' = 0
    /\ chunk_index' = 0
    /\ chunks' = <<>>
    /\ pos' = 1
    /\ replaced' = FALSE
    /\ lastArg' = ""
    /\ rowcount' = 0
    /\ adjacency_window' = 1
    /\ result' = <<>>
    /\ UNCHANGED <<chunk_size, chunk_overlap, clock, txn, store>>

----------------------------------------------------------------------------
(* Specification of the chunker alone, over every configuration *)

InitCommon ==
    /\ pc = "idle"
    /\ flow = "none"
    /\ filename = ""
    /\ uploaded_name = ""
    /\ total_tokens = 0
    /\ start = 0
    /\ chunk_index = 0
    /\ chunks = <<>>
    /\ clock = 0
    /\ pos = 1
    /\ txn = {}
    /\ replaced = FALSE
    /\ store = {}
    /\ lastArg = ""
    /\ rowcount = 0
    /\ adjacency_window = 1
    /\ result = <<>>

InitChunk ==
    /\ chunk_size \in 1..MaxChunkSize
    /\ chunk_overlap \in 0..MaxOverlap
    /\ InitCommon

NextChunk ==
    \/ ChunkCall
    \/ ChunkLoopBody
    \/ ChunkLoopExit
    \/ Return

SpecChunk == InitChunk /\ [][NextChunk]_vars

\* the interpreter keeps running a loop it has entered: an enabled iteration
\* or loop exit is eventually taken
FairSpecChunk ==
    /\ InitChunk
    /\ [][NextChunk]_vars
    /\ WF_vars(ChunkLoopBody)
    /\ WF_vars(ChunkLoopExit)

----------------------------------------------------------------------------
(* VectorStore *)

\* get_embedding(text): the vector the embedder computes for this text
GetEmbedding(text) == [of |-> text]

\* INSERT ... ON CONFLICT (id) DO UPDATE SET content, metadata, embedding
UpsertKeepEmbedding(rows, chunk, embedding) ==
    IF \E r \in rows : r.id = chunk.id
    THEN {IF r.id = chunk.id
          THEN [r EXCEPT !.content = chunk.text, !.metadata = chunk.metadata]
          ELSE r : r \in rows}
    ELSE rows \cup {[id |-> chunk.id, content |-> chunk.text,
                      metadata |-> chunk.metadata, embedding |-> embedding]}
Upsert(rows, chunk, embedding) ==
    {r \in rows : r.id # chunk.id}
        \cup {[id |-> chunk.id, content |-> chunk.text,
                metadata |-> chunk.metadata, embedding |-> embedding]}

\* DELETE FROM documents WHERE metadata->>'source' = %s
DeleteRowsById(rows, name) ==
    {r \in rows : r.id # ChunkId(name, r.metadata.chunk_index)}
DeleteRows(rows, name) == {r \in rows : r.metadata.source # name}

\* SELECT DISTINCT metadata->>'source' FROM documents
GetAllDocuments(rows) == {r.metadata.source : r \in rows}

\* the dict query / get_chunks_by_ids build from a row (no embedding)
Payload(r) == [id |-> r.id, text |-> r.content, metadata |-> r.metadata]

\* query(text, limit): the limit nearest rows in similarity order; the order
\* is the embedder's, so any sequence of distinct rows of that length
Query(rows, limit) ==
    LET n == Min(limit, Cardinality(rows))
    IN  {[k \in 1..n |-> Payload(f[k])] :
            f \in {g \in [1..n -> rows] :
                      \A i, j \in 1..n : i # j => g[i] # g[j]}}

\* get_chunks_by_ids(chunk_ids): SELECT ... WHERE id = ANY(%s)
GetChunksByIds(rows, chunk_ids) ==
    {Payload(r) : r \in {q \in rows : q.id \in chunk_ids}}
----------------------------------------------------------------------------
(* Retriever *)

\* step 2 of retrieve: ids of the chunks before and after every primary chunk
AdjacentIds(primary_chunks, w) ==
    UNION {
        {ChunkId(primary_chunks[k].metadata.source,
                 primary_chunks[k].metadata.chunk_index - i) :
            i \in {j \in 1..w : primary_chunks[k].metadata.chunk_index - j >= 0}}
        \cup
        {ChunkId(primary_chunks[k].metadata.source,
                 primary_chunks[k].metadata.chunk_index + i) : i \in 1..w}
        : k \in 1..Len(primary_chunks)}

\* primary_ids = {c['id'] for c in primary_chunks}
PrimaryIds(primary_chunks) ==
    {primary_chunks[k].id : k \in 1..Len(primary_chunks)}

\* ids_to_fetch = list(adjacent_ids - primary_ids)
IdsToFetchAll(adjacent_ids, primary_ids) == adjacent_ids
IdsToFetch(adjacent_ids, primary_ids) == adjacent_ids \ primary_ids

\* list.sort(key=lambda x: x['metadata']['chunk_index']): stable insertion
RECURSIVE InsertByIndex(_, _)
InsertByIndex(sorted, c) ==
    IF sorted = <<>> THEN <<c>>
    ELSE IF c.metadata.chunk_index < Head(sorted).metadata.chunk_index
         THEN <<c>> \o sorted
         ELSE <<Head(sorted)>> \o InsertByIndex(Tail(sorted), c)

RECURSIVE SortFrom(_, _)
SortFrom(sorted, rest) ==
    IF rest = <<>> THEN sorted
    ELSE SortFrom(InsertByIndex(sorted, Head(rest)), Tail(rest))

Unsorted(seq) == seq
SortByIndex(seq) == SortFrom(<<>>, seq)

\* the appends of "for i in range(1, adjacency_window + 1)" on one side:
\* sign = -1 builds before, sign = 1 builds after
ContextSide(context_chunks, fname, current_index, w, sign) ==
    LET ids == [i \in 1..w |-> ChunkId(fname, current_index + sign * i)]
        InMap(id) == \E c \in context_chunks : c.id = id
        found == SelectSeq(ids, InMap)
    IN  [k \in 1..Len(found) |->
            CHOOSE c \in context_chunks : c.id = found[k]]

\* steps 2-4 of retrieve for the primary chunks the store returned
ExpandedResults(rows, primary_chunks, w) ==
    LET ids_to_fetch == IdsToFetch(AdjacentIds(primary_chunks, w),
                                   PrimaryIds(primary_chunks))
        context_chunks == GetChunksByIds(rows, ids_to_fetch)
    IN  [k \in 1..Len(primary_chunks) |->
            [primary |-> primary_chunks[k],
             context |->
                [before |-> SortByIndex(ContextSide(context_chunks,
                                primary_chunks[k].metadata.source,
                                primary_chunks[k].metadata.chunk_index, w, -1)),
                 after |-> SortByIndex(ContextSide(context_chunks,
                                primary_chunks[k].metadata.source,
                                primary_chunks[k].metadata.chunk_index, w, 1))]]]

----------------------------------------------------------------------------
(* Operations of the application *)

\* app.py "Process Uploads": save the upload to a temporary file and call
\* processor.process_file(tmp_path)
ProcessUpload ==
    /\ pc = "idle"
    /\ \E name \in SourceNames, prefix \in TmpPrefixes, n \in 0..AppMaxTokens :
          /\ EnterChunker(TmpName(prefix, name), n)
          /\ uploaded_name' = name
    /\ flow' = "upload"
    /\ UNCHANGED <<chunk_size, chunk_overlap, storeVars, lastArg, rowcount,
                   retrVars>>

\* app.py after process_file returned: warn and continue on no chunks, else
\* rewrite metadata.source and enter vector_store.add_documents(chunks)
UploadChunked ==
    /\ pc = "chunked"
    /\ flow = "upload"
    /\ IF chunks = <<>>
       THEN /\ pc' = "skipped"
            /\ UNCHANGED <<chunks, txn, pos, replaced>>
       ELSE /\ chunks' = [k \in 1..Len(chunks) |->
                            [chunks[k] EXCEPT !.metadata.source = uploaded_name]]
            /\ pc' = "add"
            /\ txn' = store
            /\ pos' = 1
            /\ replaced' = FALSE
    /\ UNCHANGED <<chunk_size, chunk_overlap, flow, filename, uploaded_name,
                   total_tokens, start, chunk_index, clock, store, lastArg,
                   rowcount, retrVars>>

\* a caller of the library: chunks = process_file(path) on a file named name
DirectIngest ==
    /\ pc = "idle"
    /\ \E name \in SourceNames, n \in 0..AppMaxTokens :
          EnterChunker(name, n)
    /\ flow' = "direct"
    /\ UNCHANGED <<chunk_size, chunk_overlap, uploaded_name, storeVars,
                   lastArg, rowcount, retrVars>>

\* ... followed by add_documents(chunks)
DirectChunked ==
    /\ pc = "chunked"
    /\ flow = "direct"
    /\ pc' = "add"
    /\ txn' = store
    /\ pos' = 1
    /\ replaced' = FALSE
    /\ UNCHANGED <<chunk_size, chunk_overlap, flow, chunkerVars, uploaded_name,
                   clock, store, lastArg, rowcount, retrVars>>

\* add_documents: one iteration of "for chunk in chunks" that succeeds
AddChunk ==
    /\ pc = "add"
    /\ pos <= Len(chunks)
    /\ LET chunk == chunks[pos]
           embedding == GetEmbedding(chunk.text)
       IN  /\ txn' = Upsert(txn, chunk, embedding)
           /\ replaced' = (replaced \/ \E r \in txn : r.id = chunk.id)
    /\ pos' = pos + 1
    /\ UNCHANGED <<chunk_size, chunk_overlap, pc, flow, chunkerVars,
                   uploaded_name, clock, store, lastArg, rowcount, retrVars>>

\* add_documents: get_embedding or cur.execute raises in iteration pos; the
\* connection's context manager rolls the transaction back
AddFail ==
    /\ pc = "add"
    /\ pos <= Len(chunks)
    /\ txn' = {}
    /\ pc' = "add_failed"
    /\ UNCHANGED <<chunk_size, chunk_overlap, flow, chunkerVars, uploaded_name,
                   clock, pos, replaced, store, lastArg, rowcount, retrVars>>

\* add_documents: the loop is over; the context manager commits
AddCommit ==
    /\ pc = "add"
    /\ pos > Len(chunks)
    /\ store' = txn
    /\ txn' = {}
    /\ pc' = "added"
    /\ UNCHANGED <<chunk_size, chunk_overlap, flow, chunkerVars, uploaded_name,
                   clock, pos, replaced, lastArg, rowcount, retrVars>>

\* vector_store.delete_document(name)
DeleteDocument ==
    /\ pc = "idle"
    /\ \E name \in SourceNames :
          /\ store' = DeleteRows(store, name)
          /\ rowcount' = Cardinality(store) - Cardinality(DeleteRows(store, name))
          /\ lastArg' = name
    /\ pc' = "deleted"
    /\ UNCHANGED <<chunk_size, chunk_overlap, flow, chunkerVars, uploaded_name,
                   clock, pos, txn, replaced, retrVars>>

\* retriever.retrieve(query, top_k, adjacency_window)
Retrieve ==
    /\ pc = "idle"
    /\ clock <= MaxQueriedIngest
    /\ \E top_k \in 1..MaxTopK, w \in 1..MaxWindow :
          \E primary_chunks \in Query(store, top_k) :
             /\ result' = ExpandedResults(store, primary_chunks, w)
             /\ adjacency_window' = w
    /\ pc' = "retrieved"
    /\ UNCHANGED <<chunk_size, chunk_overlap, flow, chunkerVars, uploaded_name,
                   clock, storeVars, lastArg, rowcount>>

Init ==
    /\ chunk_size \in 1..AppMaxChunkSize
    /\ chunk_overlap \in 0..(chunk_size - 1)
    /\ InitCommon

Next ==
    \/ ProcessUpload
    \/ UploadChunked
    \/ DirectIngest
    \/ DirectChunked
    \/ ChunkLoopBody
    \/ ChunkLoopExit
    \/ AddChunk
    \/ AddFail
    \/ AddCommit
    \/ DeleteDocument
    \/ Retrieve
    \/ Return

Spec == Init /\ [][Next]_vars

----------------------------------------------------------------------------
(* Properties of the chunker, checked under SpecChunk *)

\* the configuration satisfies the required invariant 0 <= O < W
ValidConfig == 0 <= chunk_overlap /\ chunk_overlap < chunk_size

\* ceil(a / b) for b > 0
CeilDiv(a, b) == (a + b - 1) \div b

\* token span of the k-th chunk of the returned list
SpanLo(k) == chunks[k].text.lo
SpanHi(k) == chunks[k].text.hi

\* C3: whenever O >= W the chunker fails with InvalidConfiguration: it never
\* runs its loop and never produces a chunk.
C3_InvalidConfiguration ==
    chunk_overlap >= chunk_size =>
        /\ pc \in {"idle", "InvalidConfiguration"}
        /\ chunks = <<>>

\* C4 as stated: with O < W the chunker returns ceil((N-O)/(W-O)) chunks when
\* N > W and 1 chunk otherwise.
C4_CountOriginal ==
    (pc = "chunked" /\ ValidConfig) =>
        Len(chunks) = IF total_tokens > chunk_size
                      THEN CeilDiv(total_tokens - chunk_overlap,
                                   chunk_size - chunk_overlap)
                      ELSE 1

\* C4 amended: with 0 <= O < W the chunker returns ceil((N-O)/(W-O)) chunks
\* when N > W, 1 chunk when 1 <= N <= W, and no chunk when N = 0.
C4_Count ==
    (pc = "chunked" /\ ValidConfig) =>
        Len(chunks) = IF total_tokens > chunk_size
                      THEN CeilDiv(total_tokens - chunk_overlap,
                                   chunk_size - chunk_overlap)
                      ELSE IF total_tokens >= 1 THEN 1 ELSE 0

\* a run with overlapping windows that needed at least three of them
C4_Witness ==
    /\ pc = "chunked"
    /\ ValidConfig
    /\ chunk_overlap > 0
    /\ total_tokens > chunk_size
    /\ Len(chunks) >= 3

\* C5: with 0 <= O < W the returned chunks carry chunk_index 0, 1, 2, ...,
\* chunk k spans tokens [k(W-O), min(k(W-O)+W, N)), the spans cover [0, N)
\* without a gap, and all consecutive windows but possibly the last pair
\* overlap by exactly O tokens; N=5, W=4, O=1 gives exactly [0,4) and [3,5).
C5_Spans ==
    (pc = "chunked" /\ ValidConfig) =>
        LET step == chunk_size - chunk_overlap IN
        /\ \A k \in 1..Len(chunks) :
              /\ chunks[k].metadata.chunk_index = k - 1
              /\ SpanLo(k) = (k - 1) * step
              /\ SpanHi(k) = Min((k - 1) * step + chunk_size, total_tokens)
              /\ chunks[k].metadata.token_count = SpanHi(k) - SpanLo(k)
        /\ \A t \in 0..(total_tokens - 1) :
              \E k \in 1..Len(chunks) : SpanLo(k) <= t /\ t < SpanHi(k)
        /\ \A k \in 1..(Len(chunks) - 2) :
              SpanHi(k) - SpanLo(k + 1) = chunk_overlap
        /\ (total_tokens = 5 /\ chunk_size = 4 /\ chunk_overlap = 1) =>
              /\ Len(chunks) = 2
              /\ <<SpanLo(1), SpanHi(1)>> = <<0, 4>>
              /\ <<SpanLo(2), SpanHi(2)>> = <<3, 5>>

\* a run with overlap whose last window is shorter than W
C5_Witness ==
    /\ pc = "chunked"
    /\ ValidConfig
    /\ chunk_overlap > 0
    /\ Len(chunks) >= 3
    /\ SpanHi(Len(chunks)) - SpanLo(Len(chunks)) < chunk_size

----------------------------------------------------------------------------
(* Properties of the store, checked under Spec *)

\* the rows of a set that carry the given (source, chunk_index)
RowsAt(rows, source, index) ==
    {r \in rows : r.metadata.source = source /\ r.metadata.chunk_index = index}

\* the row add_documents writes for a chunk
RowOf(chunk) ==
    [id |-> chunk.id, content |-> chunk.text, metadata |-> chunk.metadata,
     embedding |-> GetEmbedding(chunk.text)]

\* C1: every persisted row has id = stable_hash(source ++ "_" ++ chunk_index),
\* the id the Retriever recomputes from the row's (source, chunk_index).
C1_IdInvariant ==
    \A r \in store : r.id = ChunkId(r.metadata.source, r.metadata.chunk_index)

\* C2: when add_documents fails on chunk i, the chunks 0..i-1 of the same call
\* are persisted and visible.
C2_NoRollback ==
    pc = "add_failed" =>
        \A j \in 1..(pos - 1) : RowOf(chunks[j]) \in store

\* C7: after an ingestion under a source name, the store holds exactly one row
\* per (source, chunk_index) of that ingestion and it is the row just written.
C7_LastWriteWins ==
    pc = "added" =>
        \A k \in 1..Len(chunks) :
            RowsAt(store, chunks[k].metadata.source,
                   chunks[k].metadata.chunk_index) = {RowOf(chunks[k])}

\* C8: delete_document(name) removes exactly the rows whose metadata.source is
\* name, leaves every other row as it was, changes nothing when no row
\* matches, and get_all_documents afterwards does not contain name.
C8_DeleteFrame ==
    [][pc' = "deleted" =>
        /\ store' \subseteq store
        /\ \A r \in store : (r \in store') <=> (r.metadata.source # lastArg')
        /\ (lastArg' \notin GetAllDocuments(store)) => (store' = store)
        /\ lastArg' \notin GetAllDocuments(store')]_vars

\* a delete that removed rows and left rows of another source
C8_Witness ==
    /\ pc = "deleted"
    /\ rowcount >= 2
    /\ store # {}

\* C10: every row, committed or written by the open transaction, carries the
\* embedding computed for its current content.
C10_EmbeddingFresh ==
    \A r \in store \cup txn : r.embedding = GetEmbedding(r.content)

\* an upsert that replaced a row and was then aborted on a later chunk
C10_Witness ==
    /\ pc = "add_failed"
    /\ replaced
    /\ pos >= 2
    /\ store # {}

----------------------------------------------------------------------------
(* Properties of the retriever, checked under Spec *)

\* chunk_index of the j-th chunk of a context list
IndexAt(list, j) == list[j].metadata.chunk_index

\* the context list retrieve owes a primary chunk of source s on one side
\* when the neighbour is looked up by (source, chunk_index)
NeighbourByPosition(s, index) ==
    IF RowsAt(store, s, index) # {}
    THEN {<<Payload(r)>> : r \in RowsAt(store, s, index)}
    ELSE {<<>>}

\* ... and when it is looked up by the recomputed id among the rows that are
\* not primary chunks of the result
NeighbourById(s, index) ==
    LET hit == {r \in store :
                    /\ index >= 0
                    /\ r.id = ChunkId(s, index)
                    /\ \A k \in 1..Len(result) : result[k].primary.id # r.id}
    IN  IF hit # {} THEN {<<Payload(r)>> : r \in hit} ELSE {<<>>}

C9_ContextOrder ==
    pc = "retrieved" =>
        \A k \in 1..Len(result) :
            LET i == result[k].primary.metadata.chunk_index
                before == result[k].context.before
                after == result[k].context.after
            IN  /\ \A j \in 1..Len(before) :
                      /\ IndexAt(before, j) >= i - adjacency_window
                      /\ IndexAt(before, j) <= i - 1
                      /\ IndexAt(before, j) >= 0
                /\ \A j \in 1..(Len(before) - 1) :
                      IndexAt(before, j) < IndexAt(before, j + 1)
                /\ \A j \in 1..Len(after) :
                      /\ IndexAt(after, j) >= i + 1
                      /\ IndexAt(after, j) <= i + adjacency_window
                /\ \A j \in 1..(Len(after) - 1) :
                      IndexAt(after, j) < IndexAt(after, j + 1)
                /\ \A j \in 1..Len(before), m \in 1..Len(result) :
                      before[j].id # result[m].primary.id
                /\ \A j \in 1..Len(after), m \in 1..Len(result) :
                      after[j].id # result[m].primary.id
                /\ (i = 0) => (before = <<>>)

\* a result with window 2 whose primary chunk got two chunks before it
C9_Witness ==
    /\ pc = "retrieved"
    /\ adjacency_window = 2
    /\ \E k \in 1..Len(result) : Len(result[k].context.before) = 2

----------------------------------------------------------------------------
(* Termination of the chunker, checked under FairSpecChunk *)

\* C11: with 0 <= O < W and any N >= 0 the chunking loop terminates: every
\* iteration that stays in the loop strictly increases start and its window
\* ended before N, the iteration whose window end reaches N leaves the loop,
\* N = 0 leaves it at once without a chunk, and a loop that was entered is
\* eventually left.
C11_Terminates ==
    /\ [][(ValidConfig /\ pc = "chunk") =>
            /\ (pc' = "chunk") =>
                  /\ start' > start
                  /\ start + chunk_size < total_tokens
                  /\ Len(chunks') = Len(chunks) + 1
            /\ (start < total_tokens
                    /\ Min(start + chunk_size, total_tokens) = total_tokens) =>
                  /\ pc' = "chunked"
                  /\ Len(chunks') = Len(chunks) + 1
            /\ (total_tokens = 0) => (pc' = "chunked" /\ chunks' = <<>>)]_vars
    /\ (ValidConfig /\ pc = "chunk") ~> (pc = "chunked")

\* a loop that advanced its window at least twice and then left at the window
\* whose end reached N
C11_Witness ==
    /\ pc = "chunked"
    /\ ValidConfig
    /\ chunk_index >= 2
    /\ start > 0
    /\ start + chunk_size >= total_tokens
    /\ Len(chunks) = chunk_index + 1

====
